---- MODULE Spec2Model ----
(***************************************************************************)
(* The two scraping pipelines of backend/scripts:                          *)
(*   climate_scraper.py  scrape_fao_climate_data(region_code, ...)         *)
(*   farm_scraper.py     scrape_fao_farm_data(farm_id, region_id)          *)
(* One behaviour is one invocation of one of the two scripts.  Every       *)
(* requests.get of the code is one step: the response is chosen            *)
(* nondeterministically and processed as the code processes it.            *)
(*                                                                         *)
(* Numbers.  JSON numbers and table cells are integers here; the farm      *)
(* coordinates are kept in hundredths of a degree.  Python's round() is    *)
(* modelled exactly on rationals (round half to even).                     *)
(* An optional value (dict.get without default: None when the key is       *)
(* absent or null) is a sequence of length 0 or 1.                         *)
(***************************************************************************)
EXTENDS Integers, Sequences, FiniteSets, TLC

VARIABLES
    script,            \* "climate" | "farm": which script was started
    pc,                \* position in the function body
    requests,          \* the requests.get calls issued so far, in order
    result,            \* what __main__ prints: nothing yet, a record, or an error
    \* ---- locals of scrape_fao_climate_data
    region_code,
    data,              \* api_response.json()
    temperature_data,
    rainfall_json,     \* rainfall_response.json()
    rainfall_data,
    wb_data,           \* wb_response.json()
    monthly_data,
    headers,           \* "dict" (the request headers) | "list" (rebound to th texts)
    \* ---- locals of scrape_fao_farm_data
    farm_id,
    region_id,
    farm_size,
    soil_data,
    crop_status,       \* crop_response.status_code
    crops,             \* the insertion-ordered dict, as a sequence of <<name, value>>
    total,
    field_distribution,
    water_usage

climateVars == <<region_code, data, temperature_data, rainfall_json, rainfall_data,
                 wb_data, monthly_data, headers>>
farmVars == <<farm_id, region_id, farm_size, soil_data, crop_status,
              crops, total, field_distribution, water_usage>>
vars == <<script, pc, requests, result, climateVars, farmVars>>

----------------------------------------------------------------------------
(* Bounds of the model *)

MaxItems == 2      \* records in one trend response
MaxRows == 13      \* rows below the header in one HTML table
MaxTables == 2     \* matching tables in the Earth Observation page
MaxBad == 1        \* leading malformed rows of a table
MaxFarmId == 3
MaxCropRecords == 2 \* records in one crop response of the small family
ManyCrops == 53    \* records in the one large crop response

----------------------------------------------------------------------------
(* Python helpers *)

None == <<>>
Some(v) == <<v>>

\* Python truthiness of the result of item.get(key): None and 0 are falsy.
Truthy(x) == x # None /\ x[1] # 0

Min(a, b) == IF a < b THEN a ELSE b
Max(a, b) == IF a > b THEN a ELSE b

\* sum(s[lo+1..hi]); the range is halved so that long sequences stay shallow.
RECURSIVE SumRange(_, _, _)
SumRange(s, lo, hi) ==
    IF hi <= lo THEN 0
    ELSE IF hi = lo + 1 THEN s[hi]
    ELSE LET mid == (lo + hi) \div 2
         IN  SumRange(s, lo, mid) + SumRange(s, mid, hi)

SumSeq(s) == SumRange(s, 0, Len(s))

\* round(n / d) for d > 0 as Python 3 computes it: half to even.
Round(n, d) ==
    LET q == n \div d
        r == n % d
    IN  IF 2 * r < d THEN q
        ELSE IF 2 * r > d THEN q + 1
        ELSE IF q % 2 = 0 THEN q ELSE q + 1

\* float(text) of a table cell: the number, or ValueError (None here).
FloatOf(text) ==
    CASE text = "17" -> Some(17)
      [] text = "40" -> Some(40)
      [] text = "0"  -> Some(0)
      [] OTHER       -> None

months == <<"Jan", "Feb", "Mar", "Apr", "May", "Jun",
            "Jul", "Aug", "Sep", "Oct", "Nov", "Dec">>

regions ==
    ("1" :> "Northern Africa") @@ ("2" :> "Eastern Africa") @@ ("3" :> "Middle Africa")
    @@ ("4" :> "Southern Africa") @@ ("5" :> "Western Africa")

\* dict.get(key, default)
Get(d, k, default) == IF k \in DOMAIN d THEN d[k] ELSE default

NoResult == [kind |-> "none"]
Raise(msg) == [kind |-> "error", error |-> msg]

----------------------------------------------------------------------------
(* Responses of the external sources (the inputs of one invocation) *)

Statuses == {200, 503}

\* A JSON body: ok = FALSE when response.json() raises; keys = its top-level keys.
BadJson == [ok |-> FALSE, keys |-> {}, items |-> <<>>]
Json(keys, items) == [ok |-> TRUE, keys |-> keys, items |-> items]

RECURSIVE SeqsUpTo(_, _)
SeqsUpTo(S, n) ==
    IF n = 0 THEN {<<>>}
    ELSE LET shorter == SeqsUpTo(S, n - 1)
         IN  shorter \cup {Append(s, x) : s \in shorter, x \in S}

\* One record of a FAOSTAT trend response: year and value may be absent, null or 0.
TrendItems == [year : {None, Some(0), Some(2000), Some(2001)},
               value : {None, Some(0), Some(5)}]

TrendResponses ==
    {[status |-> 503, json |-> BadJson], [status |-> 200, json |-> BadJson],
     [status |-> 200, json |-> Json({}, <<>>)]}
    \cup {[status |-> 200, json |-> Json({"data"}, s)] : s \in SeqsUpTo(TrendItems, MaxItems)}

\* The trend responses used where the monthly sources are explored in full.
FewTrendResponses ==
    {[status |-> 503, json |-> BadJson], [status |-> 200, json |-> BadJson],
     [status |-> 200, json |-> Json({"data"},
        <<[year |-> Some(2000), value |-> Some(5)], [year |-> Some(2001), value |-> Some(0)]>>)]}

\* Rows of an HTML table below its header row, each a sequence of cell texts.
GoodRow == <<"m", "17", "40">>
BadRows == {<<"m", "17">>, <<"m", "n/a", "40">>}

\* n copies of x, as a sequence.
RECURSIVE Rep(_, _)
Rep(x, n) == IF n <= 0 THEN <<>> ELSE <<x>> \o Rep(x, n - 1)

\* A table of n rows whose first b rows are the malformed row bad.
Table(n, b, bad) == Rep(bad, Min(b, n)) \o Rep(GoodRow, n - Min(b, n))

Tables == {Table(n, b, bad) : n \in 0..MaxRows, b \in 0..MaxBad, bad \in BadRows}

\* A page: its status and the tables its selector matches, k tables of one shape.
PageResponses(maxTables) ==
    {[status |-> 503, tables |-> <<>>], [status |-> 200, tables |-> <<>>]}
    \cup {[status |-> 200, tables |-> Rep(t, k)] : t \in Tables, k \in 1..maxTables}

\* The Earth Observation page may hold several matching tables; of the country
\* brief only the first .climate-table is read.
EOResponses == PageResponses(MaxTables)
BriefResponses == PageResponses(1)

FewPageResponses ==
    {[status |-> 503, tables |-> <<>>], [status |-> 200, tables |-> <<Table(12, 0, GoodRow)>>],
     [status |-> 200, tables |-> <<Table(3, 0, GoodRow)>>]}

\* A value of wb_data['monthlyData'][month]: a mapping holding the fields named
\* in has (temperature 17, precipitation 40), null, or no such key at all.
FullMonth == [kind |-> "dict", has |-> {"temperature", "precipitation"}]
NoTemperature == [kind |-> "dict", has |-> {"precipitation"}]
NullMonth == [kind |-> "null", has |-> {}]
AbsentMonth == [kind |-> "absent", has |-> {}]
NoMonths == Rep(AbsentMonth, 12)

\* monthlyData, month by month: the first n months complete, the next month given
\* by tail, all later months absent.
MonthlyData(n, tail) ==
    Rep(FullMonth, n)
    \o (IF n < 12 THEN <<CASE tail = "null" -> NullMonth
                            [] tail = "partial" -> NoTemperature
                            [] OTHER -> AbsentMonth>>
        ELSE <<>>)
    \o Rep(AbsentMonth, 11 - n)

WBJson(keys, md) == [ok |-> TRUE, keys |-> keys, monthlyData |-> md]
WBBadJson == [ok |-> FALSE, keys |-> {}, monthlyData |-> NoMonths]

WBResponses ==
    {[status |-> 503, json |-> WBBadJson], [status |-> 200, json |-> WBBadJson],
     [status |-> 200, json |-> WBJson({}, NoMonths)]}
    \cup {[status |-> 200, json |-> WBJson({"monthlyData"}, MonthlyData(n, tail))] :
            n \in 0..12, tail \in {"absent", "null", "partial"}}

FewWBResponses ==
    {[status |-> 503, json |-> WBBadJson],
     [status |-> 200, json |-> WBJson({"monthlyData"}, MonthlyData(12, "absent"))]}

ClimateRegionCodes == {"3", "9"}

----------------------------------------------------------------------------
(* scrape_fao_climate_data *)

\* The loop over data['data']: entries whose year and value are both truthy.
RECURSIVE TrendEntries(_, _)
TrendEntries(items, unit) ==
    IF items = <<>> THEN <<>>
    ELSE LET item == Head(items)
             rest == TrendEntries(Tail(items), unit)
         IN  IF Truthy(item.year) /\ Truthy(item.value)
             THEN <<[year |-> item.year[1], value |-> item.value[1], unit |-> unit]>> \o rest
             ELSE rest

TrendOf(json, unit) ==
    IF "data" \in json.keys THEN TrendEntries(json.items, unit) ELSE <<>>

\* One table row, number i (from 0) below the header: the entry it appends, if any.
\* src records which source attempt produced the entry.
RowEntries(i, cells, src) ==
    IF i < Len(months) /\ Len(cells) >= 3
          /\ FloatOf(cells[2]) # None /\ FloatOf(cells[3]) # None
    THEN <<[month |-> months[i + 1], temperature |-> FloatOf(cells[2])[1],
            rainfall |-> FloatOf(cells[3])[1], src |-> src]>>
    ELSE <<>>

RECURSIVE TableEntries(_, _, _)
TableEntries(rows, i, src) ==
    IF i >= Len(rows) THEN <<>>
    ELSE RowEntries(i, rows[i + 1], src) \o TableEntries(rows, i + 1, src)

\* The loop over the tables of a page, from table number t on.
RECURSIVE PageEntries(_, _, _)
PageEntries(tables, t, src) ==
    IF t > Len(tables) THEN <<>>
    ELSE TableEntries(tables[t], 0, src) \o PageEntries(tables, t + 1, src)

\* month_data.get(field, 0) on a mapping of the World Bank payload.
FieldOr0(month_data, field) ==
    IF field \in month_data.has
    THEN (IF field = "temperature" THEN 17 ELSE 40)
    ELSE 0

\* The loop over months of the World Bank branch, from month number i on:
\* monthlyData.get(month, {}) of an absent month is the empty mapping; the loop
\* stops at the first month whose value is no mapping (AttributeError, swallowed).
RECURSIVE WBEntries(_, _)
WBEntries(md, i) ==
    IF i > Len(months) THEN <<>>
    ELSE LET month_data == md[i]
         IN  IF month_data.kind = "null" THEN <<>>
             ELSE <<[month |-> months[i],
                     temperature |-> FieldOr0(month_data, "temperature"),
                     rainfall |-> FieldOr0(month_data, "precipitation"),
                     src |-> "wb"]>> \o WBEntries(md, i + 1)

\* A variant of the test with the threshold moved by one.
InsufficientAt12(series) == Len(series) <= 12

\* The test that sends the pipeline to the next monthly source.
Insufficient(series) == Len(series) < 12

\* An exception leaves the function: __main__ prints {"error": ...} and exits 1.
Abort(msg) ==
    /\ pc' = "error"
    /\ result' = Raise(msg)

\* Lines 20-23: the request to the FAOSTAT page.
ClimateProbe ==
    /\ script = "climate" /\ pc = "probe"
    /\ requests' = Append(requests, "probe")
    /\ \E status \in Statuses :
          IF status # 200
          THEN Abort("Failed to access FAO website")
          ELSE pc' = "temperature" /\ UNCHANGED result
    /\ UNCHANGED <<script, climateVars, farmVars>>

\* Lines 45-64: the temperature request and the loop over its records.
FetchTemperature(Responses) ==
    /\ script = "climate" /\ pc = "temperature"
    /\ requests' = Append(requests, "temperature")
    /\ \E r \in Responses :
          IF r.status # 200
          THEN Abort("Failed to access FAO API") /\ UNCHANGED <<data, temperature_data>>
          ELSE IF ~r.json.ok
          THEN Abort("JSONDecodeError") /\ UNCHANGED <<data, temperature_data>>
          ELSE /\ data' = r.json
               /\ temperature_data' = TrendOf(r.json, "C")
               /\ pc' = "rainfall"
               /\ UNCHANGED result
    /\ UNCHANGED <<script, region_code, rainfall_json, rainfall_data, wb_data,
                   monthly_data, headers, farmVars>>

\* Lines 75-92: the rainfall request and the loop over its records.
FetchRainfall(Responses) ==
    /\ script = "climate" /\ pc = "rainfall"
    /\ requests' = Append(requests, "rainfall")
    /\ \E r \in Responses :
          IF r.status # 200
          THEN Abort("Failed to access FAO rainfall API")
               /\ UNCHANGED <<rainfall_json, rainfall_data>>
          ELSE IF ~r.json.ok
          THEN Abort("JSONDecodeError") /\ UNCHANGED <<rainfall_json, rainfall_data>>
          ELSE /\ rainfall_json' = r.json
               /\ rainfall_data' = TrendOf(r.json, "mm")
               /\ pc' = "eo"
               /\ UNCHANGED result
    /\ UNCHANGED <<script, region_code, data, temperature_data, wb_data,
                   monthly_data, headers, farmVars>>

\* Lines 95-127: the GIEWS Earth Observation page.  Line 107 rebinds headers to the
\* list of th texts of each table it visits.
FetchEarthObservation(Responses) ==
    /\ script = "climate" /\ pc = "eo"
    /\ requests' = Append(requests, "eo")
    /\ \E r \in Responses :
          /\ monthly_data' = IF r.status = 200 THEN PageEntries(r.tables, 1, "eo") ELSE <<>>
          /\ headers' = IF r.status = 200 /\ Len(r.tables) > 0 THEN "list" ELSE "dict"
    /\ pc' = IF Insufficient(monthly_data') THEN "wb" ELSE "assemble"
    /\ UNCHANGED <<script, result, region_code, data, temperature_data, rainfall_json,
                   rainfall_data, wb_data, farmVars>>

\* requests.get(url, headers=headers) once headers is a list of strings: the
\* library fails preparing the request (no .items()); whether it does depends on
\* the installed requests, so both outcomes are kept.
SendFails == IF headers = "list" THEN BOOLEAN ELSE {FALSE}

\* Lines 127-145: the World Bank portal.
FetchWorldBank(Responses) ==
    /\ script = "climate" /\ pc = "wb"
    /\ requests' = Append(requests, "wb")
    /\ \E fails \in SendFails :
          IF fails
          THEN Abort("AttributeError") /\ UNCHANGED <<wb_data, monthly_data>>
          ELSE /\ \E r \in Responses :
                    IF r.status = 200 /\ r.json.ok
                    THEN /\ wb_data' = r.json
                         /\ monthly_data' = IF "monthlyData" \in r.json.keys
                                            THEN WBEntries(r.json.monthlyData, 1)
                                            ELSE monthly_data
                    ELSE UNCHANGED <<wb_data, monthly_data>>
               /\ pc' = IF Insufficient(monthly_data') THEN "brief" ELSE "assemble"
               /\ UNCHANGED result
    /\ UNCHANGED <<script, region_code, data, temperature_data, rainfall_json,
                   rainfall_data, headers, farmVars>>

\* Lines 148-173: the GIEWS country brief; only its first .climate-table is read.
FetchCountryBrief(Responses) ==
    /\ script = "climate" /\ pc = "brief"
    /\ requests' = Append(requests, "brief")
    /\ \E fails \in SendFails :
          IF fails
          THEN Abort("AttributeError") /\ UNCHANGED monthly_data
          ELSE /\ \E r \in Responses :
                    monthly_data' =
                        IF r.status = 200 /\ Len(r.tables) > 0
                        THEN monthly_data \o TableEntries(r.tables[1], 0, "brief")
                        ELSE monthly_data
               /\ pc' = "assemble"
               /\ UNCHANGED result
    /\ UNCHANGED <<script, region_code, data, temperature_data, rainfall_json,
                   rainfall_data, wb_data, headers, farmVars>>

\* Lines 34, 176-184: the record returned.
ClimateAssemble ==
    /\ script = "climate" /\ pc = "assemble"
    /\ result' = [kind |-> "climate",
                  region |-> Get(regions, region_code, "Northern Africa"),
                  temperature_trend |-> temperature_data,
                  rainfall_trend |-> rainfall_data,
                  monthly_data |-> monthly_data,
                  data_source |-> "FAOSTAT (Scraped)"]
    /\ pc' = "done"
    /\ UNCHANGED <<script, requests, climateVars, farmVars>>

----------------------------------------------------------------------------
(* Regional tables of farm_scraper.py *)

RegionIds == {"1", "2", "3", "4", "5"}

farm_names ==
    ("1" :> <<"Green Valley Farm", "Sahara Oasis", "Atlas Highland">>)
    @@ ("2" :> <<"Eastern Plains", "Highland Ranch", "Victoria Farm">>)
    @@ ("3" :> <<"Congo Basin Farm", "Equatorial Estate", "Rainforest Plantation">>)
    @@ ("4" :> <<"Kalahari Estate", "Cape Vineyard", "Southern Meadows">>)
    @@ ("5" :> <<"Savanna Ranch", "Niger Delta Farm", "Coastal Plantation">>)

\* In hundredths of a degree.
region_coords ==
    ("1" :> [lat |-> 3080, lng |-> 940])
    @@ ("2" :> [lat |-> 30, lng |-> 3790])
    @@ ("3" :> [lat |-> 660, lng |-> 2090])
    @@ ("4" :> [lat |-> -2650, lng |-> 2470])
    @@ ("5" :> [lat |-> 1170, lng |-> -430])

patterns ==
    ("1" :> [rain_base |-> 30, rain_peak |-> 0, irr_base |-> 50, irr_peak |-> 6])
    @@ ("2" :> [rain_base |-> 60, rain_peak |-> 3, irr_base |-> 40, irr_peak |-> 7])
    @@ ("3" :> [rain_base |-> 100, rain_peak |-> 7, irr_base |-> 30, irr_peak |-> 1])
    @@ ("4" :> [rain_base |-> 50, rain_peak |-> 1, irr_base |-> 45, irr_peak |-> 7])
    @@ ("5" :> [rain_base |-> 80, rain_peak |-> 8, irr_base |-> 35, irr_peak |-> 2])

irrigation_types == <<"Drip", "Sprinkler", "Flood", "Center Pivot", "Subsurface">>

\* Indices into irrigation_types, from 0 as in the source.
regional_preferences ==
    ("1" :> <<0, 2, 4>>) @@ ("2" :> <<0, 1, 3>>) @@ ("3" :> <<1, 2, 4>>)
    @@ ("4" :> <<0, 1, 3>>) @@ ("5" :> <<1, 2, 3>>)

\* Lines 38-40.
FarmName(region, id) ==
    LET farm_list == Get(farm_names, region, <<"Unknown Farm">>)
    IN  farm_list[(id % Len(farm_list)) + 1]

\* Line 52.
BaseCoords(region) == Get(region_coords, region, [lat |-> 0, lng |-> 0])

\* Lines 55-56 and 272-275, in hundredths: (id * 0.1) % 1.0 and (id * 0.15) % 1.5.
Location(region, id) ==
    [lat |-> BaseCoords(region).lat + ((id * 10) % 100),
     lng |-> BaseCoords(region).lng + ((id * 15) % 150)]

\* Line 182.
Pattern(region) == Get(patterns, region, patterns["1"])

\* Line 313.
Preferences(region) == Get(regional_preferences, region, <<0, 1, 2>>)

\* get_irrigation_type, lines 300-316.
get_irrigation_type(region, id) ==
    LET preferences == Preferences(region)
        index == id % Len(preferences)
    IN  irrigation_types[preferences[index + 1] + 1]

\* get_soil_type, lines 289-298; ph and organic_matter in tenths.
get_soil_type(ph, organic_matter) ==
    IF ph < 55 THEN (IF organic_matter < 30 THEN "Sandy Loam" ELSE "Loamy Sand")
    ELSE IF ph < 65 THEN (IF organic_matter < 30 THEN "Silt Loam" ELSE "Clay Loam")
    ELSE (IF organic_matter < 30 THEN "Silty Clay" ELSE "Clay Loam")

\* A variant of the offset without the fold at 6.
OffsetUnfolded(i, peak) == (i - peak) % 12

\* Lines 198-200 and 204-206: abs((i - peak) % 12), folded at 6.
Offset(i, peak) ==
    LET o == (i - peak) % 12
        a == IF o < 0 THEN -o ELSE o
    IN  IF a > 6 THEN 12 - a ELSE a

\* A variant of the entry whose efficiency divides by rain_base, not rain_base * 2.
WaterEntryHalfRange(i, pattern) ==
    LET rain_offset == Offset(i, pattern.rain_peak)
        irr_offset == Offset(i, pattern.irr_peak)
        rain3 == pattern.rain_base * (6 - rain_offset)
        irr3 == pattern.irr_base * (6 - irr_offset)
        den == 3 * pattern.rain_base
    IN  [month |-> months[i + 1],
         rainfall |-> Round(rain3, 3),
         irrigation |-> Round(irr3, 3),
         efficiency |-> Round(65 * den + 25 * (den - rain3), den)]

\* Lines 196-217: the entry of month number i (from 0) for a pattern.
\* base * (2 - offset / 3) is base * (6 - offset) / 3; the efficiency uses the
\* unrounded rainfall.
WaterEntry(i, pattern) ==
    LET rain_offset == Offset(i, pattern.rain_peak)
        irr_offset == Offset(i, pattern.irr_peak)
        rain3 == pattern.rain_base * (6 - rain_offset)      \* 3 * rainfall
        irr3 == pattern.irr_base * (6 - irr_offset)         \* 3 * irrigation
        den == 3 * pattern.rain_base * 2
    IN  [month |-> months[i + 1],
         rainfall |-> Round(rain3, 3),
         irrigation |-> Round(irr3, 3),
         efficiency |-> Round(65 * den + 25 * (den - rain3), den)]

SynthesizeWater(pattern) == [i \in 1..Len(months) |-> WaterEntry(i - 1, pattern)]

\* Lines 121-126.
DefaultDistribution ==
    <<[name |-> "Wheat", value |-> 25], [name |-> "Barley", value |-> 20],
      [name |-> "Maize", value |-> 15], [name |-> "Fallow", value |-> 10]>>

\* Lines 84-91; ph and organic_matter in tenths, water_holding_capacity in hundredths.
DefaultSoil ==
    [ph |-> 65, organic_matter |-> 20, nitrogen |-> 50, phosphorus |-> 30,
     potassium |-> 150, water_holding_capacity |-> 15]

\* Lines 229-254 (the mitigation texts are left out).
DefaultRisk ==
    <<[type |-> "Drought", probability |-> 50, impact |-> 3],
      [type |-> "Pest Infestation", probability |-> 40, impact |-> 3],
      [type |-> "Extreme Weather", probability |-> 30, impact |-> 4],
      [type |-> "Soil Degradation", probability |-> 35, impact |-> 3]>>

\* Line 138: the records the loop over crop_json['data'] takes up.
Counted(items) ==
    {i \in 1..Len(items) : items[i].item_name # "" /\ items[i].value # 0}

\* Lines 131-140: the loop assigns crops[crop_name] = value for every counted
\* record and adds its value to total.  An insertion-ordered dict keeps a key at
\* the place of its first assignment, with the value of its last.  (Written
\* without recursion over the records, so that long responses stay shallow.)
Accumulate(items) ==
    LET counted == Counted(items)
        first == {i \in counted :
                     \A j \in counted : j < i => items[j].item_name # items[i].item_name}
        last(name) == CHOOSE i \in counted :
                         /\ items[i].item_name = name
                         /\ \A j \in counted : items[j].item_name = name => j <= i
        place(i) == Cardinality({j \in first : j <= i})
    IN  [crops |-> [p \in 1..Cardinality(first) |->
                      LET i == CHOOSE k \in first : place(k) = p
                      IN  <<items[i].item_name, items[last(items[i].item_name)].value>>],
         total |-> SumSeq([i \in 1..Len(items) |->
                             IF i \in counted THEN items[i].value ELSE 0])]

\* Line 154: the fallow share.
Fallow(used) == Max(5, 100 - used)

\* Lines 142-155: round(value / total * 70) per crop, then Fallow.
Distribution(cs, tot) ==
    LET shares == [i \in 1..Len(cs) |->
                      [name |-> cs[i][1], value |-> Round(70 * cs[i][2], tot)]]
        used == SumSeq([i \in 1..Len(cs) |-> shares[i].value])
    IN  Append(shares, [name |-> "Fallow", value |-> Fallow(used)])

\* A variant of the normalisation that also divides by a total of 0.
NormalizeZeroToo(cs, tot) ==
    IF tot >= 0 THEN Distribution(cs, tot) ELSE DefaultDistribution

\* Lines 120-126 and 142-155: the default stays unless total > 0.
Normalize(cs, tot) ==
    IF tot > 0 THEN Distribution(cs, tot) ELSE DefaultDistribution

\* Line 278.
RECURSIVE CropNames(_)
CropNames(fd) ==
    IF fd = <<>> THEN <<>>
    ELSE (IF Head(fd).name # "Fallow" THEN <<Head(fd).name>> ELSE <<>>)
         \o CropNames(Tail(fd))

----------------------------------------------------------------------------
(* Responses of the sources of the farm pipeline *)

FarmRegionIds == RegionIds \cup {"9"}

\* land_data['data'][0].get('value', 0), in hectares.
LandResponses ==
    {[status |-> 503, json |-> BadJson], [status |-> 200, json |-> BadJson],
     [status |-> 200, json |-> Json({}, <<>>)], [status |-> 200, json |-> Json({"data"}, <<>>)],
     [status |-> 200, json |-> Json({"data"}, <<[value |-> 7505000]>>)],
     [status |-> 200, json |-> Json({"data"}, <<[value |-> 0], [value |-> 7505000]>>)]}

\* soil_json: props.has names the properties present (ph 5.0, om 4.0).
NoProps == [has |-> {}, ph |-> 0, om |-> 0]
SoilJson(keys, props) == [ok |-> TRUE, keys |-> keys, properties |-> props]
SoilResponses ==
    {[status |-> 503, json |-> [ok |-> FALSE, keys |-> {}, properties |-> NoProps]],
     [status |-> 200, json |-> [ok |-> FALSE, keys |-> {}, properties |-> NoProps]],
     [status |-> 200, json |-> SoilJson({}, NoProps)],
     [status |-> 200, json |-> SoilJson({"properties"}, NoProps)],
     [status |-> 200, json |-> SoilJson({"properties"},
         [has |-> {"ph", "om"}, ph |-> 50, om |-> 40])]}

CropItems == [item_name : {"", "Wheat", "Rice"}, value : {0, 10, 30}]

\* ManyCrops distinct crops: one large one and the others just above half a point
\* of the 70-point budget each.
RECURSIVE LargeCropRange(_, _)
LargeCropRange(lo, hi) ==
    IF hi <= lo THEN <<>>
    ELSE IF hi = lo + 1
    THEN <<[item_name |-> "Crop" \o ToString(hi), value |-> IF hi = 1 THEN 4612 ELSE 54]>>
    ELSE LET mid == (lo + hi) \div 2
         IN  LargeCropRange(lo, mid) \o LargeCropRange(mid, hi)

LargeCropData == LargeCropRange(0, ManyCrops)

CropResponses ==
    {[status |-> 503, json |-> BadJson], [status |-> 200, json |-> BadJson],
     [status |-> 200, json |-> Json({}, <<>>)],
     [status |-> 200, json |-> Json({"data"}, LargeCropData)]}
    \cup {[status |-> 200, json |-> Json({"data"}, s)] : s \in SeqsUpTo(CropItems, MaxCropRecords)}

\* The water and risk responses: a status and whether the payload holds the
\* table.dataTable / the 'indicators' key the code looks for.
AuxResponses == [status : Statuses, ok : BOOLEAN, found : BOOLEAN]

----------------------------------------------------------------------------
(* scrape_fao_farm_data *)

\* Lines 20-23 of farm_scraper.py.
FarmProbe ==
    /\ script = "farm" /\ pc = "probe"
    /\ requests' = Append(requests, "probe")
    /\ \E status \in Statuses :
          IF status # 200
          THEN Abort("Failed to access FAO website")
          ELSE pc' = "land" /\ UNCHANGED result
    /\ UNCHANGED <<script, climateVars, farmVars>>

\* Lines 66-78; farm_size in ten-thousandths of a hectare (total_ag_land / 10000).
FetchLand ==
    /\ script = "farm" /\ pc = "land"
    /\ requests' = Append(requests, "land")
    /\ \E r \in LandResponses :
          IF r.status # 200
          THEN Abort("Failed to access FAO land API") /\ UNCHANGED farm_size
          ELSE IF ~r.json.ok
          THEN Abort("JSONDecodeError") /\ UNCHANGED farm_size
          ELSE /\ farm_size' =
                    IF "data" \in r.json.keys /\ r.json.items # <<>>
                    THEN Max(50 * 10000, Min(1000 * 10000, r.json.items[1].value))
                    ELSE 100 * 10000
               /\ pc' = "soil"
               /\ UNCHANGED result
    /\ UNCHANGED <<script, climateVars, farm_id, region_id, soil_data, crop_status,
                   crops, total, field_distribution, water_usage>>

\* Lines 82-107.
FetchSoil ==
    /\ script = "farm" /\ pc = "soil"
    /\ requests' = Append(requests, "soil")
    /\ \E r \in SoilResponses :
          soil_data' =
              IF r.status = 200 /\ r.json.ok /\ "properties" \in r.json.keys
              THEN LET props == r.json.properties
                   IN  [ph |-> IF "ph" \in props.has THEN props.ph ELSE 65,
                        organic_matter |-> IF "om" \in props.has THEN props.om ELSE 20,
                        nitrogen |-> 50,
                        phosphorus |-> 30,
                        potassium |-> 150,
                        water_holding_capacity |-> 15]
              ELSE DefaultSoil
    /\ pc' = "crop"
    /\ UNCHANGED <<script, result, climateVars, farm_id, region_id, farm_size, crop_status,
                   crops, total, field_distribution, water_usage>>

\* Lines 118-155.  crop_response.json() is called outside any try.
FetchCrops ==
    /\ script = "farm" /\ pc = "crop"
    /\ requests' = Append(requests, "crop")
    /\ \E r \in CropResponses :
          /\ crop_status' = r.status
          /\ IF r.status = 200 /\ ~r.json.ok
             THEN Abort("JSONDecodeError") /\ UNCHANGED <<crops, total, field_distribution>>
             ELSE /\ LET acc == IF r.status = 200 /\ "data" \in r.json.keys
                                THEN Accumulate(r.json.items)
                                ELSE [crops |-> <<>>, total |-> 0]
                     IN  /\ crops' = acc.crops
                         /\ total' = acc.total
                         /\ field_distribution' = Normalize(acc.crops, acc.total)
                  /\ pc' = "water"
                  /\ UNCHANGED result
    /\ UNCHANGED <<script, climateVars, farm_id, region_id, farm_size, soil_data, water_usage>>

\* Lines 167-217: whatever the AQUASTAT page holds, water_usage is still empty at
\* line 195 and the series is generated from the region's pattern.
FetchWater ==
    /\ script = "farm" /\ pc = "water"
    /\ requests' = Append(requests, "water")
    /\ \E r \in AuxResponses :
          LET parsed == <<>>      \* lines 184-192 extract nothing
          IN  water_usage' = IF parsed = <<>> THEN SynthesizeWater(Pattern(region_id))
                             ELSE parsed
    /\ pc' = "risk"
    /\ UNCHANGED <<script, result, climateVars, farm_id, region_id, farm_size, soil_data,
                   crop_status, crops, total, field_distribution>>

\* Lines 226-264: the risk feed changes nothing.
FetchRisk ==
    /\ script = "farm" /\ pc = "risk"
    /\ requests' = Append(requests, "risk")
    /\ \E r \in AuxResponses : pc' = "assemble"
    /\ UNCHANGED <<script, result, climateVars, farmVars>>

\* Lines 267-287.
FarmAssemble ==
    /\ script = "farm" /\ pc = "assemble"
    /\ result' = [kind |-> "farm",
                  farm_info |-> [id |-> farm_id,
                                 name |-> FarmName(region_id, farm_id),
                                 size |-> Round(farm_size, 10000),
                                 location |-> Location(region_id, farm_id),
                                 soil_type |-> get_soil_type(soil_data.ph, soil_data.organic_matter),
                                 irrigation_type |-> get_irrigation_type(region_id, farm_id),
                                 crops |-> CropNames(field_distribution)],
                  soil_analysis |-> soil_data,
                  field_distribution |-> field_distribution,
                  water_usage |-> water_usage,
                  risk_assessment |-> DefaultRisk,
                  data_source |-> "FAOSTAT (Scraped)"]
    /\ pc' = "done"
    /\ UNCHANGED <<script, requests, climateVars, farmVars>>

----------------------------------------------------------------------------
(* The state machine *)

Init ==
    /\ pc = "probe" /\ requests = <<>> /\ result = NoResult
    /\ data = BadJson /\ rainfall_json = BadJson /\ wb_data = WBBadJson
    /\ temperature_data = <<>> /\ rainfall_data = <<>> /\ monthly_data = <<>>
    /\ headers = "dict"
    /\ farm_size = 100 * 10000 /\ soil_data = DefaultSoil /\ crop_status = 0
    /\ crops = <<>> /\ total = 0
    /\ field_distribution = DefaultDistribution /\ water_usage = <<>>
    /\ \/ /\ script = "climate"
          /\ region_code \in ClimateRegionCodes
          /\ farm_id = 0 /\ region_id = ""
       \/ /\ script = "farm"
          /\ region_code = ""
          /\ farm_id \in 0..MaxFarmId /\ region_id \in FarmRegionIds

Next ==
    \/ ClimateProbe
    \/ FetchTemperature(FewTrendResponses)
    \/ FetchRainfall(FewTrendResponses)
    \/ FetchEarthObservation(EOResponses)
    \/ FetchWorldBank(WBResponses)
    \/ FetchCountryBrief(BriefResponses)
    \/ ClimateAssemble
    \/ FarmProbe
    \/ FetchLand
    \/ FetchSoil
    \/ FetchCrops
    \/ FetchWater
    \/ FetchRisk
    \/ FarmAssemble

Spec == Init /\ [][Next]_vars

\* The climate pipeline with the trend sources explored in full.
InitTrend == Init /\ script = "climate"

NextTrend ==
    \/ ClimateProbe
    \/ FetchTemperature(TrendResponses)
    \/ FetchRainfall(TrendResponses)
    \/ FetchEarthObservation(FewPageResponses)
    \/ FetchWorldBank(FewWBResponses)
    \/ FetchCountryBrief(FewPageResponses)
    \/ ClimateAssemble

SpecTrend == InitTrend /\ [][NextTrend]_vars

----------------------------------------------------------------------------
(* Claims *)

Last(s) == s[Len(s)]
IsSource(x) == x \in {"eo", "wb", "brief"}
MonthlyRequests == SelectSeq(requests, IsSource)
ClimateDone == script = "climate" /\ pc = "done"
FarmDone == script = "farm" /\ pc = "done"

\* C1: once the probe has succeeded, no outcome of a later source attempt aborts
\* the invocation: an error is only ever raised by the probe itself.
C1_NoAbortAfterProbe ==
    pc = "error" => Last(requests) = "probe"

\* C2: the monthly_data of the returned climate record has exactly 12 entries,
\* one per calendar month, in the order Jan..Dec.
C2_TwelveMonths ==
    ClimateDone =>
        /\ Len(result.monthly_data) = 12
        /\ \A i \in 1..12 : result.monthly_data[i].month = months[i]

\* C3: all entries of the final monthly_data come from one single source attempt.
C3_SingleSource ==
    ClimateDone =>
        \A i, j \in 1..Len(result.monthly_data) :
            result.monthly_data[i].src = result.monthly_data[j].src

\* C4: the monthly sources are requested in the order eo, wb, brief, each at most
\* once; wb or brief is requested only while the series left by the earlier
\* attempts is insufficient (fewer than 12 entries); and once an attempt has left
\* a sufficient series, no further source is requested and the series is not
\* modified again.
C4_PriorityOrder ==
    /\ [](\E n \in 0..3 : MonthlyRequests = SubSeq(<<"eo", "wb", "brief">>, 1, n))
    /\ [][/\ (MonthlyRequests' # MonthlyRequests /\ Last(MonthlyRequests') # "eo")
                => Len(monthly_data) < 12
          /\ (MonthlyRequests # <<>> /\ Len(monthly_data) >= 12)
                => (MonthlyRequests' = MonthlyRequests /\ monthly_data' = monthly_data)]_vars

\* C4 witness: the World Bank portal was tried after an insufficient Earth
\* Observation page, gave a sufficient series, and the record was returned
\* without the country brief being requested.
C4_Witness ==
    /\ ClimateDone
    /\ MonthlyRequests = <<"eo", "wb">>
    /\ Len(result.monthly_data) = 12

\* C5: no entry of a monthly source stands for a month whose record lacked a
\* field (no placeholder), and a source is accepted as sufficient (no later
\* source is requested) only with exactly 12 well-formed entries.
C5_NoPlaceholders ==
    ClimateDone =>
        /\ \A i \in 1..Len(monthly_data) :
              monthly_data[i].src = "wb" =>
                 \A m \in 1..12 :
                    months[m] = monthly_data[i].month =>
                       /\ wb_data.monthlyData[m].kind = "dict"
                       /\ wb_data.monthlyData[m].has = {"temperature", "precipitation"}
        /\ Last(MonthlyRequests) # "brief" => Len(monthly_data) = 12

DistributionSum(fd) == SumSeq([i \in 1..Len(fd) |-> fd[i].value])
CropShareSum(fd) == SumSeq([i \in 1..(Len(fd) - 1) |-> fd[i].value])
AfterCrops == script = "farm" /\ pc \in {"water", "risk", "assemble", "done"}

\* C6: whenever total > 0 the percentages sum to exactly 100, each is
\* >= 0, and the Fallow entry is 100 minus the sum of the crop percentages.
C6_SumIs100 ==
    (AfterCrops /\ total > 0) =>
        /\ DistributionSum(field_distribution) = 100
        /\ \A i \in 1..Len(field_distribution) : field_distribution[i].value >= 0
        /\ Last(field_distribution).value = 100 - CropShareSum(field_distribution)

\* What line 154 gives instead when total > 0: each percentage is >= 0, the last
\* entry is Fallow with max(5, 100 - the sum of the crop percentages), the
\* percentages sum to at least 100, and to exactly 100 whenever the crop
\* percentages sum to at most 95, which is the case for up to 50 distinct names.
FieldDistributionFloor ==
    (AfterCrops /\ total > 0) =>
        LET fd == field_distribution
            used == CropShareSum(fd)
        IN  /\ Len(fd) = Len(crops) + 1
            /\ \A i \in 1..Len(fd) : fd[i].value >= 0
            /\ Last(fd).name = "Fallow"
            /\ Last(fd).value = (IF 100 - used < 5 THEN 5 ELSE 100 - used)
            /\ DistributionSum(fd) >= 100
            /\ used <= 95 => DistributionSum(fd) = 100
            /\ Len(crops) <= 50 => used <= 95

\* C6, the failing case reached: a response with more than 50 crops was
\* normalised, the floor of the fallow share was the value taken and the
\* percentages of the returned record sum to more than 100.
C6_Witness ==
    /\ FarmDone /\ total > 0 /\ Len(crops) > 50
    /\ Last(result.field_distribution).value = 5
    /\ DistributionSum(result.field_distribution) > 100

\* The reading of the trend contract: the records whose year and value are both
\* present and non-null, 0 counting as present, in source order.
RECURSIVE PresentEntries(_, _)
PresentEntries(items, unit) ==
    IF items = <<>> THEN <<>>
    ELSE (IF Head(items).year # None /\ Head(items).value # None
          THEN <<[year |-> Head(items).year[1], value |-> Head(items).value[1],
                  unit |-> unit]>>
          ELSE <<>>) \o PresentEntries(Tail(items), unit)

\* C7: each trend holds, in source order, exactly the source records whose year
\* and value are both present and non-null (0 counts as present).
C7_TrendKeepsPresent ==
    ClimateDone =>
        /\ result.temperature_trend = PresentEntries(data.items, "C")
        /\ result.rainfall_trend = PresentEntries(rainfall_json.items, "mm")

UnknownRegionDone == FarmDone /\ region_id \notin RegionIds

\* C8: for a region id outside "1".."5" the record equals the record
\* of region "1" for the same farm id in location, irrigation_type and
\* water_usage.
C8_UnknownIsRegion1 ==
    UnknownRegionDone =>
        /\ result.farm_info.location =
              [lat |-> 3080 + ((farm_id * 10) % 100), lng |-> 940 + ((farm_id * 15) % 150)]
        /\ result.farm_info.irrigation_type =
              <<"Drip", "Flood", "Subsurface">>[(farm_id % 3) + 1]
        /\ result.water_usage = SynthesizeWater(patterns["1"])

\* What lines 52, 182 and 313 give instead for a region id outside "1".."5":
\* only the seasonal pattern is region "1"'s, so water_usage equals region "1"'s;
\* the base coordinate is {0, 0}, so the location is the farm-id offset alone, and
\* the irrigation preference list is [Drip, Sprinkler, Flood].
UnknownRegionDefaults ==
    UnknownRegionDone =>
        /\ result.farm_info.location =
              [lat |-> (farm_id * 10) % 100, lng |-> (farm_id * 15) % 150]
        /\ result.farm_info.irrigation_type =
              <<"Drip", "Sprinkler", "Flood">>[(farm_id % 3) + 1]
        /\ result.water_usage = SynthesizeWater(patterns["1"])
        /\ [i \in 1..12 |-> result.water_usage[i].rainfall]
              = <<60, 50, 40, 30, 20, 10, 0, 10, 20, 30, 40, 50>>

\* C8, the failing case reached: a record for region "9" whose irrigation type
\* differs from the one region "1" gives the same farm id.
C8_Witness ==
    /\ UnknownRegionDone /\ region_id = "9" /\ farm_id = 1
    /\ result.farm_info.irrigation_type = "Sprinkler"

\* The circular distance of month i to the peak month, and the claimed triple.
CircularDistance(i, peak) ==
    LET d == (i - peak) % 12 IN IF d > 6 THEN 12 - d ELSE d

ClaimedTriple(i, region) ==
    LET p == IF region \in RegionIds THEN patterns[region] ELSE patterns["1"]
        rain == CircularDistance(i, p.rain_peak)
        irr == CircularDistance(i, p.irr_peak)
    IN  [month |-> months[i + 1],
         rainfall |-> Round(p.rain_base * (6 - rain), 3),
         irrigation |-> Round(p.irr_base * (6 - irr), 3),
         efficiency |-> Round(65 * 6 + 25 * rain, 6)]

\* C9: for every region id, farm id and outcome of the water source, water_usage
\* has exactly 12 entries in Jan..Dec order and entry i is the triple of the
\* circular-distance formula for the region's pattern alone: the series is a
\* function of the region id only.
C9_WaterByRegionOnly ==
    (script = "farm" /\ pc \in {"risk", "assemble", "done"}) =>
        /\ Len(water_usage) = 12
        /\ \A i \in 0..11 : water_usage[i + 1] = ClaimedTriple(i, region_id)
        /\ pc = "done" => result.water_usage = water_usage

\* C9 witness: a returned record of region "3", whose January is five months
\* from the rainfall peak and whose August is the peak.
C9_Witness ==
    /\ FarmDone /\ region_id = "3" /\ farm_id = 2
    /\ result.water_usage[1].rainfall = 33
    /\ result.water_usage[8] =
          [month |-> "Aug", rainfall |-> 200, irrigation |-> 0, efficiency |-> 65]

\* C10: when the crop source is unavailable, returns no records, or the total is
\* 0, field_distribution is the literal default and farm_info.crops is
\* [Wheat, Barley, Maize].
C10_DefaultDistribution ==
    (FarmDone /\ (crop_status # 200 \/ crops = <<>> \/ total = 0)) =>
        /\ result.field_distribution =
              <<[name |-> "Wheat", value |-> 25], [name |-> "Barley", value |-> 20],
                [name |-> "Maize", value |-> 15], [name |-> "Fallow", value |-> 10]>>
        /\ result.farm_info.crops = <<"Wheat", "Barley", "Maize">>

\* C10 witness: the crop source answered 200 with records, none of them counted,
\* and the record was returned.
C10_Witness ==
    /\ FarmDone /\ crop_status = 200 /\ total = 0
    /\ result.farm_info.crops = <<"Wheat", "Barley", "Maize">>

\* C11: for each of the five regional patterns and every month index i in 0..11
\* the synthesized values are bounded: 0 <= rainfall <= 2 * rain_base, the maximum
\* taken at month rain_peak and at no other month; 0 <= irrigation <= 2 * irr_base,
\* the maximum taken at month irr_peak and at no other month; 65 <= efficiency
\* <= 90, with 65 at the rainfall peak month and 90 at the month six away from
\* it; no value is negative.
C11_WaterBounds ==
    (script = "farm" /\ pc \in {"risk", "assemble", "done"} /\ region_id \in RegionIds) =>
        LET p == patterns[region_id]
        IN  /\ \A i \in 0..11 :
                  LET e == water_usage[i + 1]
                  IN  /\ 0 <= e.rainfall /\ e.rainfall <= 2 * p.rain_base
                      /\ (e.rainfall = 2 * p.rain_base) <=> (i = p.rain_peak)
                      /\ 0 <= e.irrigation /\ e.irrigation <= 2 * p.irr_base
                      /\ (e.irrigation = 2 * p.irr_base) <=> (i = p.irr_peak)
                      /\ 65 <= e.efficiency /\ e.efficiency <= 90
            /\ water_usage[p.rain_peak + 1].efficiency = 65
            /\ water_usage[((p.rain_peak + 6) % 12) + 1].efficiency = 90

\* C11 witness: a returned record of region "5", whose September is the rainfall
\* peak and whose March is six months away from it and is the irrigation peak.
C11_Witness ==
    /\ FarmDone /\ region_id = "5"
    /\ result.water_usage[9] =
          [month |-> "Sep", rainfall |-> 160, irrigation |-> 0, efficiency |-> 65]
    /\ result.water_usage[3] =
          [month |-> "Mar", rainfall |-> 0, irrigation |-> 70, efficiency |-> 90]

====
